---- MODULE Spec2Model ----
(***************************************************************************)
(* A model of the video text-overlay studio: the process-wide encoder      *)
(* session (lib/ffmpeg.ts loadFFmpeg), the useFFmpeg hook, the rendering   *)
(* strategies and their fallback orchestrator addCharacterOverlays, and    *)
(* the processVideo handler of the VideoProcessor component.               *)
(***************************************************************************)
EXTENDS Integers, Sequences, FiniteSets, TLC

\* ------------------------------------------------------------------ bounds
\* Number of rendering jobs one behaviour may start.
MaxJobs == 2
\* Number of annotations the collection may hold.
MaxChars == 2
\* Last reading of the millisecond clock (Date.now()).
MaxTime == 2
\* Number of loadFFmpeg calls a direct importer of the library makes.
MaxCalls == 2
\* Length of the texts whose escaping is followed character by character.
MaxTextLen == 2
\* Length of the annotation lists the filter builders are called with.
MaxListLen == 7

\* ------------------------------------------------------------- vocabularies
\* Importers of lib/ffmpeg.ts that call the exported functions directly.
Clients == {"c1", "c2"}
\* Everyone who calls loadFFmpeg: the hook, the job's strategies, the importers.
Callers == {"hook", "job"} \cup Clients

\* Files offered to the upload input: 1 is a short video, 2 a video that is
\* too long, 3 is not a video.
Files == {1, 2, 3}

VARIABLES
  \* lib/ffmpeg.ts module state and the engine behind it
  ffmpeg,        \* the module variable: 0 is null, h > 0 the h-th FFmpeg object
  engine,        \* engine[h]: "loading" | "loaded" | "failed", one per new FFmpeg()
  fs,            \* the engine's working namespace: input.mp4 and output.mp4
  listeners,     \* progress listeners registered with ffmpeg.on, in order
  loadRet,       \* per caller: how its pending loadFFmpeg call stands
  loadHandle,    \* per caller: the handle its last loadFFmpeg call returned
  retEngine,     \* per caller: the engine state of that handle when returned
  calls,         \* per importer: loadFFmpeg calls made
  \* hooks/useFFmpeg.ts
  isLoaded, isLoading, ffmpegError, effectPending,
  \* app/page.tsx state and the annotation collection
  uploadedVideo, videoUrl, characters, pendingMeta, now,
  \* components/VideoProcessor.tsx processVideo and the job it awaits
  isProcessing, processingProgress, processedVideoUrl, error,
  jobs,          \* jobs started so far
  job,           \* the running addCharacterOverlays call
  \* components/VideoProcessor.tsx preview state
  draggingCharacter,  \* id of the annotation being dragged, 0 for null
  editingCharacter,   \* id of the annotation being edited, 0 for null
  \* the engine's last progress event and the callbacks its listeners invoked
  lastEvent,
  \* lib/ffmpeg.ts filter builders called on their own
  snapshot,      \* the annotation list a strategy is called with
  built,         \* the strategy called and the -vf filter of each exec it issued
  \* the browser's pointer events on the preview
  gesture        \* the pointer gesture under way and its events not yet dispatched

sessionVars == <<ffmpeg, engine, fs, listeners, loadRet, loadHandle, retEngine, calls>>
hookVars == <<isLoaded, isLoading, ffmpegError, effectPending>>
pageVars == <<uploadedVideo, videoUrl, characters, pendingMeta, now>>
procVars == <<isProcessing, processingProgress, processedVideoUrl, error, jobs, job>>
editVars == <<draggingCharacter, editingCharacter>>
eventVars == <<lastEvent>>
filterVars == <<snapshot, built>>
gestureVars == <<gesture>>
vars == <<sessionVars, hookVars, pageVars, procVars, editVars, eventVars, filterVars, gestureVars>>

\* ------------------------------------------------------------ the session
\* output.mp4: whether it exists, whether it is of zero length, and the
\* strategy invocation (job and call site) whose exec wrote it.
NoOutput == [present |-> FALSE, empty |-> FALSE, byJob |-> 0, byStage |-> "none"]
EmptyFs == [input |-> FALSE, output |-> NoOutput]

\* The test of line 19: a handle was already assigned to the module variable.
\* (MemoizedNever is the function without the test: a faulty variant, used to
\* show that the properties below depend on it.)
MemoizedNever == FALSE
Memoized == ffmpeg # 0

\* Whether the engine behind handle h accepts commands.
EngineReady(h) == h \in 1..Len(engine) /\ engine[h] = "loaded"

\* The synchronous part of loadFFmpeg for caller c: return the memoized
\* handle at once, whatever its engine's state, or construct the engine,
\* assign it to the module variable and start its load.
loadFFmpeg(c) ==
  IF Memoized
    THEN /\ loadRet' = [loadRet EXCEPT ![c] = "ok"]
         /\ loadHandle' = [loadHandle EXCEPT ![c] = ffmpeg]
         /\ retEngine' = [retEngine EXCEPT ![c] = engine[ffmpeg]]
         /\ UNCHANGED <<ffmpeg, engine>>
    ELSE /\ engine' = Append(engine, "loading")
         /\ ffmpeg' = Len(engine) + 1
         /\ loadRet' = [loadRet EXCEPT ![c] = "pending"]
         /\ loadHandle' = [loadHandle EXCEPT ![c] = Len(engine) + 1]
         /\ UNCHANGED retEngine

\* The awaited ffmpeg.load (with its two toBlobURL fetches) resolves: the
\* constructing caller gets the handle back.
LoadSucceeds ==
  \E c \in Callers :
    /\ loadRet[c] = "pending"
    /\ engine' = [engine EXCEPT ![loadHandle[c]] = "loaded"]
    /\ loadRet' = [loadRet EXCEPT ![c] = "ok"]
    /\ retEngine' = [retEngine EXCEPT ![c] = "loaded"]
    /\ UNCHANGED <<ffmpeg, fs, listeners, loadHandle, calls>>
    /\ UNCHANGED <<hookVars, pageVars, procVars, editVars, eventVars, filterVars, gestureVars>>

\* The load rejects: the error is rethrown to the constructing caller; the
\* module variable keeps the handle.
LoadFails ==
  \E c \in Callers :
    /\ loadRet[c] = "pending"
    /\ engine' = [engine EXCEPT ![loadHandle[c]] = "failed"]
    /\ loadRet' = [loadRet EXCEPT ![c] = "err"]
    /\ UNCHANGED <<ffmpeg, fs, listeners, loadHandle, retEngine, calls>>
    /\ UNCHANGED <<hookVars, pageVars, procVars, editVars, eventVars, filterVars, gestureVars>>

\* An importer calls loadFFmpeg (the first line of every exported strategy).
ClientCall(c) ==
  /\ loadRet[c] = "none"
  /\ calls[c] < MaxCalls
  /\ calls' = [calls EXCEPT ![c] = @ + 1]
  /\ loadFFmpeg(c)
  /\ UNCHANGED <<fs, listeners>>
  /\ UNCHANGED <<hookVars, pageVars, procVars, editVars, eventVars, filterVars, gestureVars>>

\* The importer's await finishes, with the handle or the load error.
ClientResume(c) ==
  /\ loadRet[c] \in {"ok", "err"}
  /\ loadRet' = [loadRet EXCEPT ![c] = "none"]
  /\ UNCHANGED <<ffmpeg, engine, fs, listeners, loadHandle, retEngine, calls>>
  /\ UNCHANGED <<hookVars, pageVars, procVars, editVars, eventVars, filterVars, gestureVars>>

\* --------------------------------------------------------------- the hook
\* The mount effect, re-run whenever load changes identity (its dependencies
\* isLoaded and isLoading changed): load() returns at its guard or starts.
HookEffect ==
  /\ effectPending
  /\ loadRet["hook"] = "none"
  /\ IF isLoaded \/ isLoading
       THEN /\ effectPending' = FALSE
            /\ UNCHANGED <<isLoaded, isLoading, ffmpegError, sessionVars>>
       ELSE /\ isLoading' = TRUE
            /\ ffmpegError' = FALSE
            /\ loadFFmpeg("hook")
            /\ UNCHANGED <<isLoaded, effectPending, fs, listeners, calls>>
  /\ UNCHANGED <<pageVars, procVars, editVars, eventVars, filterVars, gestureVars>>

\* load() resumes with the handle: register the progress listener, report
\* loaded, and (finally) clear isLoading.
HookLoaded ==
  /\ loadRet["hook"] = "ok"
  /\ loadRet' = [loadRet EXCEPT !["hook"] = "none"]
  /\ listeners' = Append(listeners, 0)
  /\ isLoaded' = TRUE
  /\ isLoading' = FALSE
  /\ effectPending' = TRUE
  /\ UNCHANGED <<ffmpeg, engine, fs, loadHandle, retEngine, calls, ffmpegError>>
  /\ UNCHANGED <<pageVars, procVars, editVars, eventVars, filterVars, gestureVars>>

\* load() catches the load error: record it, and (finally) clear isLoading.
HookFailed ==
  /\ loadRet["hook"] = "err"
  /\ loadRet' = [loadRet EXCEPT !["hook"] = "none"]
  /\ ffmpegError' = TRUE
  /\ isLoading' = FALSE
  /\ effectPending' = TRUE
  /\ UNCHANGED <<ffmpeg, engine, fs, listeners, loadHandle, retEngine, calls, isLoaded>>
  /\ UNCHANGED <<pageVars, procVars, editVars, eventVars, filterVars, gestureVars>>

\* --------------------------------------------------------------- the page
NoBlob ==
  [kind |-> "none", stage |-> "none", empty |-> FALSE, video |-> 0,
   byJob |-> 0, byStage |-> "none"]

IdleJob ==
  [pc |-> "idle", stage |-> "none", step |-> "none", video |-> 0,
   chars |-> <<>>, log |-> <<>>, data |-> NoOutput, result |-> NoBlob,
   copyError |-> "none", passthrough |-> "none", causes |-> {}]

NoUrl == [set |-> FALSE, job |-> 0, kind |-> "none", empty |-> FALSE, video |-> 0]

\* No progress event was emitted yet.
NoEvent == [job |-> 0, stage |-> "none", deliveries |-> <<>>]

\* file.type.startsWith('video/') and video.duration of the offered files.
FileIsVideo(f) == f \in {1, 2}
FileDuration(f) == IF f = 2 THEN 13 ELSE 5
\* The duration ceiling of handleVideoUpload, in seconds.
MaxDuration == 12

\* The offered files that handleVideoUpload accepts.
ShortVideos == {f \in Files : FileIsVideo(f) /\ FileDuration(f) <= MaxDuration}

\* Texts typed into the text box; trim() leaves the empty one empty.
Texts == {"", "Hi"}

\* handleVideoUpload: a file whose type is a video type has its metadata
\* loaded; any other file is ignored.
HandleVideoUpload(f) ==
  /\ pendingMeta' = IF FileIsVideo(f) THEN pendingMeta \cup {f} ELSE pendingMeta
  /\ UNCHANGED <<uploadedVideo, videoUrl, characters, now>>
  /\ UNCHANGED <<sessionVars, hookVars, procVars, editVars, eventVars, filterVars, gestureVars>>

\* video.onloadedmetadata: reject a video over the ceiling, else accept it
\* and reset the annotation collection. (OnLoadedMetadataNoCeiling is the
\* faulty variant without the duration test, OnLoadedMetadataKeepsList the
\* one that does not reset the collection.)
OnLoadedMetadataNoCeiling(f) ==
  /\ f \in pendingMeta
  /\ pendingMeta' = pendingMeta \ {f}
  /\ uploadedVideo' = f
  /\ videoUrl' = f
  /\ characters' = <<>>
  /\ UNCHANGED now
  /\ UNCHANGED <<sessionVars, hookVars, procVars, editVars, eventVars, filterVars, gestureVars>>

OnLoadedMetadataKeepsList(f) ==
  /\ f \in pendingMeta
  /\ pendingMeta' = pendingMeta \ {f}
  /\ IF FileDuration(f) > MaxDuration
       THEN UNCHANGED <<uploadedVideo, videoUrl>>
       ELSE /\ uploadedVideo' = f
            /\ videoUrl' = f
  /\ UNCHANGED <<characters, now>>
  /\ UNCHANGED <<sessionVars, hookVars, procVars, editVars, eventVars, filterVars, gestureVars>>

OnLoadedMetadata(f) ==
  /\ f \in pendingMeta
  /\ pendingMeta' = pendingMeta \ {f}
  /\ IF FileDuration(f) > MaxDuration
       THEN UNCHANGED <<uploadedVideo, videoUrl, characters>>
       ELSE /\ uploadedVideo' = f
            /\ videoUrl' = f
            /\ characters' = <<>>
  /\ UNCHANGED now
  /\ UNCHANGED <<sessionVars, hookVars, procVars, editVars, eventVars, filterVars, gestureVars>>

\* addCustomText of the CharacterSelector: a non-blank text becomes a new
\* annotation at the default position, identified by Date.now(), read at
\* some millisecond not before the last reading. Scales are in tenths.
AddCustomText(t) ==
  /\ Len(characters) < MaxChars
  /\ \E ms \in now..MaxTime :
       /\ now' = ms
       /\ characters' =
            IF t # ""
              THEN Append(characters,
                     [id |-> ms, type |-> "custom", emoji |-> t, text |-> "",
                      x |-> 50, y |-> 50, scale |-> 10, rotation |-> 0])
              ELSE characters
  /\ UNCHANGED <<uploadedVideo, videoUrl, pendingMeta>>
  /\ UNCHANGED <<sessionVars, hookVars, procVars, editVars, eventVars, filterVars, gestureVars>>

\* characters.filter(char => char.id !== id)
WithoutId(cs, id) == SelectSeq(cs, LAMBDA ch : ch.id # id)

\* removeCharacter: drop every annotation with the id of the one clicked.
RemoveCharacter(i) ==
  /\ i \in 1..Len(characters)
  /\ characters' = WithoutId(characters, characters[i].id)
  /\ UNCHANGED <<uploadedVideo, videoUrl, pendingMeta, now>>
  /\ UNCHANGED <<sessionVars, hookVars, procVars, editVars, eventVars, filterVars, gestureVars>>

\* ------------------------------------------------------ the preview editor
\* Positions are JavaScript numbers. NaN stands for the IEEE not-a-number,
\* which every arithmetic operation passes on and every comparison rejects.
NaN == -999

JsSub(a, b) == IF a = NaN \/ b = NaN THEN NaN ELSE a - b
JsMul(a, b) == IF a = NaN \/ b = NaN THEN NaN ELSE a * b
\* The one division by zero the page can make is 0 / 0 (videoWidth and
\* videoHeight are zero together), which is NaN.
JsDiv(a, b) == IF a = NaN \/ b = NaN \/ b = 0 THEN NaN ELSE a \div b
JsGt(a, b) == a # NaN /\ b # NaN /\ a > b
MathMin(a, b) == IF a = NaN \/ b = NaN THEN NaN ELSE IF a < b THEN a ELSE b
MathMax(a, b) == IF a = NaN \/ b = NaN THEN NaN ELSE IF a > b THEN a ELSE b

\* The 5% margin from the edges, and the clamp written with it.
Margin == 5
ClampToMargin(v) == MathMax(Margin, MathMin(100 - Margin, v))

\* The preview element's box (getBoundingClientRect), with its corner at the
\* origin of the client area.
ElementWidth == 100
ElementHeight == 100

\* The intrinsic sizes <<videoWidth, videoHeight>> the preview element
\* reports: zero by zero before its metadata has loaded or when the file
\* has no video track, else a video twice as wide as it is high.
VideoSizes == {<<0, 0>>, <<200, 100>>}

\* Pointer positions <<clientX, clientY>> inside the preview element.
Pointers == {<<50, 50>>, <<100, 0>>}

\* getVideoContentArea: the box of the picture inside the element.
getVideoContentArea(size) ==
  LET videoAspectRatio == JsDiv(size[1], size[2])
      elementAspectRatio == JsDiv(ElementWidth, ElementHeight)
      wideHeight == JsDiv(ElementWidth, videoAspectRatio)
      tallWidth == JsMul(ElementHeight, videoAspectRatio)
  IN  IF JsGt(videoAspectRatio, elementAspectRatio)
        THEN [contentWidth |-> ElementWidth, contentHeight |-> wideHeight,
              offsetX |-> 0, offsetY |-> JsDiv(JsSub(ElementHeight, wideHeight), 2)]
        ELSE [contentWidth |-> tallWidth, contentHeight |-> ElementHeight,
              offsetX |-> JsDiv(JsSub(ElementWidth, tallWidth), 2), offsetY |-> 0]

\* (relative / content) * 100, computed as relative * 100 / content.
PercentOf(relative, content) == JsDiv(JsMul(relative, 100), content)

\* The clamped percentages of a pointer position, as addCharacter and
\* handleMouseMove compute them.
PointerPercent(size, ptr) ==
  LET area == getVideoContentArea(size)
      relativeX == JsSub(ptr[1], area.offsetX)
      relativeY == JsSub(ptr[2], area.offsetY)
  IN  [x |-> ClampToMargin(PercentOf(relativeX, area.contentWidth)),
       y |-> ClampToMargin(PercentOf(relativeY, area.contentHeight))]

\* characters.map(c => c.id === id ? f(c) : c), with mapped[k] for f(cs[k]).
MapById(cs, id, mapped) ==
  [k \in 1..Len(cs) |-> IF cs[k].id = id THEN mapped[k] ELSE cs[k]]

\* addCharacter: a click on the preview asks for a text with prompt() and
\* adds a non-blank one at the clamped pointer position.
AddCharacter(size, ptr, t) ==
  /\ videoUrl # 0
  /\ Len(characters) < MaxChars
  /\ \E ms \in now..MaxTime :
       /\ now' = ms
       /\ characters' =
            IF t # ""
              THEN Append(characters,
                     [id |-> ms, type |-> "custom", emoji |-> t, text |-> "",
                      x |-> PointerPercent(size, ptr).x,
                      y |-> PointerPercent(size, ptr).y,
                      scale |-> 10, rotation |-> 0])
              ELSE characters
  /\ UNCHANGED <<uploadedVideo, videoUrl, pendingMeta>>
  /\ UNCHANGED <<sessionVars, hookVars, procVars, editVars, eventVars, filterVars, gestureVars>>

\* handleMouseDown on an annotation that is not being edited: start the
\* drag (draggingCharacter and dragStart are set and cleared together).
HandleMouseDown(i) ==
  /\ videoUrl # 0
  /\ i \in 1..Len(characters)
  /\ editingCharacter # characters[i].id
  /\ draggingCharacter' = characters[i].id
  /\ UNCHANGED editingCharacter
  /\ UNCHANGED <<sessionVars, hookVars, pageVars, procVars, eventVars, filterVars, gestureVars>>

\* handleMouseMove over the preview during a drag: move the dragged
\* annotation to the clamped pointer position.
DraggedTo(c, pos) == [c EXCEPT !.x = pos.x, !.y = pos.y]

HandleMouseMove(size, ptr) ==
  /\ videoUrl # 0
  /\ draggingCharacter # 0
  /\ characters' =
       MapById(characters, draggingCharacter,
               [k \in 1..Len(characters) |->
                  DraggedTo(characters[k], PointerPercent(size, ptr))])
  /\ UNCHANGED <<uploadedVideo, videoUrl, pendingMeta, now>>
  /\ UNCHANGED <<sessionVars, hookVars, procVars, editVars, eventVars, filterVars, gestureVars>>

\* handleMouseUp (mouse up on, or mouse leaving, the preview): end the drag.
HandleMouseUp ==
  /\ videoUrl # 0
  /\ draggingCharacter # 0
  /\ draggingCharacter' = 0
  /\ UNCHANGED editingCharacter
  /\ UNCHANGED <<sessionVars, hookVars, pageVars, procVars, eventVars, filterVars, gestureVars>>

\* startEditingCharacter: a double click on an annotation opens its editor.
StartEditingCharacter(i) ==
  /\ videoUrl # 0
  /\ i \in 1..Len(characters)
  /\ editingCharacter # characters[i].id
  /\ editingCharacter' = characters[i].id
  /\ UNCHANGED draggingCharacter
  /\ UNCHANGED <<sessionVars, hookVars, pageVars, procVars, eventVars, filterVars, gestureVars>>

\* The editor is shown inside the annotation being edited.
EditorShown ==
  /\ videoUrl # 0
  /\ \E k \in 1..Len(characters) : characters[k].id = editingCharacter

\* Texts typed into the editor; trim() leaves the empty one empty.
EditTexts == {"", "Yo"}

WithText(c, t) == [c EXCEPT !.text = t]

\* saveCharacterEdit: a non-blank text replaces the annotation's text and
\* closes the editor; a blank one does nothing.
SaveCharacterEdit(t) ==
  /\ EditorShown
  /\ t # ""
  /\ characters' =
       MapById(characters, editingCharacter,
               [k \in 1..Len(characters) |-> WithText(characters[k], t)])
  /\ editingCharacter' = 0
  /\ UNCHANGED draggingCharacter
  /\ UNCHANGED <<uploadedVideo, videoUrl, pendingMeta, now>>
  /\ UNCHANGED <<sessionVars, hookVars, procVars, eventVars, filterVars, gestureVars>>

\* cancelEdit: close the editor.
CancelEdit ==
  /\ EditorShown
  /\ editingCharacter' = 0
  /\ UNCHANGED draggingCharacter
  /\ UNCHANGED <<sessionVars, hookVars, pageVars, procVars, eventVars, filterVars, gestureVars>>

\* The sliders of the CharacterSelector: their min and max attributes
\* (scale in tenths), and the positions the thumb is pushed to (the scale
\* thumb past either end, the others to or past one end).
Sliders == {"x", "y", "scale", "rotation"}
SliderMin(field) ==
  CASE field = "scale" -> 5 [] field = "rotation" -> 0 [] OTHER -> 5
SliderMax(field) ==
  CASE field = "scale" -> 20 [] field = "rotation" -> 360 [] OTHER -> 95
SliderRaw(field) ==
  CASE field = "scale" -> {0, 25}
    [] field = "rotation" -> {360}
    [] field = "x" -> {100}
    [] OTHER -> {0}

\* The value a range input reports for a thumb position: the browser keeps
\* it between the min and max attributes. (RangeInputUnclamped is the
\* faulty variant, an input without the attributes.)
RangeInputUnclamped(raw, min, max) == raw
RangeInput(raw, min, max) ==
  IF raw < min THEN min ELSE IF raw > max THEN max ELSE raw

\* { ...char, ...updates } with x and y clamped when they are given.
UpdatedChar(char, field, v) ==
  CASE field = "x" -> [char EXCEPT !.x = ClampToMargin(v)]
    [] field = "y" -> [char EXCEPT !.y = ClampToMargin(v)]
    [] field = "scale" -> [char EXCEPT !.scale = v]
    [] OTHER -> [char EXCEPT !.rotation = v]

\* updateCharacter, called by the onChange of a slider with the parsed value.
UpdateCharacter(i, field, raw) ==
  /\ i \in 1..Len(characters)
  /\ characters' =
       MapById(characters, characters[i].id,
               [k \in 1..Len(characters) |->
                  UpdatedChar(characters[k], field,
                              RangeInput(raw, SliderMin(field), SliderMax(field)))])
  /\ UNCHANGED <<uploadedVideo, videoUrl, pendingMeta, now>>
  /\ UNCHANGED <<sessionVars, hookVars, procVars, editVars, eventVars, filterVars, gestureVars>>

\* ------------------------------------------------------------ the strategies
\* The call sites of addCharacterOverlays, in the order of its nested
\* try blocks, and the strategy each one invokes.
Stages == {"probe", "text", "simple", "basic", "final", "empty"}

StrategyAt(stage) ==
  CASE stage = "text" -> "addTextOverlays"
    [] stage = "simple" -> "addSimpleTextOverlay"
    [] stage = "basic" -> "addBasicTextOverlay"
    [] OTHER -> "justCopyVideo"

\* The strategies whose catch block deletes input.mp4 and output.mp4.
CleansUpOnError(name) == name \in {"justCopyVideo", "addBasicTextOverlay"}

\* What addCharacterOverlays does when the strategy of `stage` ended with
\* `outcome` ("ok" or "threw"): the next call site, "return" (the blob goes
\* to the caller), "passthrough" (the outer catch) or "throw" (no handler).
\* The four variants before it each carry one fault: the simplified-text
\* call site skipped, the length test of line 427 dropped, the basic-text
\* call site skipped, the last overlay error left uncaught.
NextStageSkipsSimple(stage, outcome, n) ==
  CASE stage = "probe" /\ outcome = "ok" -> IF n > 0 THEN "text" ELSE "empty"
    [] stage = "probe" /\ outcome = "threw" -> "passthrough"
    [] stage = "text" /\ outcome = "threw" -> "basic"
    [] stage = "simple" /\ outcome = "threw" -> "basic"
    [] stage = "basic" /\ outcome = "threw" -> "final"
    [] stage = "final" /\ outcome = "threw" -> "passthrough"
    [] stage = "empty" /\ outcome = "threw" -> "passthrough"
    [] OTHER -> "return"

NextStageNoLengthTest(stage, outcome, n) ==
  CASE stage = "probe" /\ outcome = "ok" -> "text"
    [] stage = "probe" /\ outcome = "threw" -> "passthrough"
    [] stage = "text" /\ outcome = "threw" -> "simple"
    [] stage = "simple" /\ outcome = "threw" -> "basic"
    [] stage = "basic" /\ outcome = "threw" -> "final"
    [] stage = "final" /\ outcome = "threw" -> "passthrough"
    [] stage = "empty" /\ outcome = "threw" -> "passthrough"
    [] OTHER -> "return"

NextStageSkipsBasic(stage, outcome, n) ==
  CASE stage = "probe" /\ outcome = "ok" -> IF n > 0 THEN "text" ELSE "empty"
    [] stage = "probe" /\ outcome = "threw" -> "passthrough"
    [] stage = "text" /\ outcome = "threw" -> "simple"
    [] stage = "simple" /\ outcome = "threw" -> "final"
    [] stage = "basic" /\ outcome = "threw" -> "final"
    [] stage = "final" /\ outcome = "threw" -> "passthrough"
    [] stage = "empty" /\ outcome = "threw" -> "passthrough"
    [] OTHER -> "return"

NextStageUncaughtFinal(stage, outcome, n) ==
  CASE stage = "probe" /\ outcome = "ok" -> IF n > 0 THEN "text" ELSE "empty"
    [] stage = "probe" /\ outcome = "threw" -> "passthrough"
    [] stage = "text" /\ outcome = "threw" -> "simple"
    [] stage = "simple" /\ outcome = "threw" -> "basic"
    [] stage = "basic" /\ outcome = "threw" -> "throw"
    [] stage = "final" /\ outcome = "threw" -> "passthrough"
    [] stage = "empty" /\ outcome = "threw" -> "passthrough"
    [] OTHER -> "return"

NextStage(stage, outcome, n) ==
  CASE stage = "probe" /\ outcome = "ok" -> IF n > 0 THEN "text" ELSE "empty"
    [] stage = "probe" /\ outcome = "threw" -> "passthrough"
    [] stage = "text" /\ outcome = "threw" -> "simple"
    [] stage = "simple" /\ outcome = "threw" -> "basic"
    [] stage = "basic" /\ outcome = "threw" -> "final"
    [] stage = "final" /\ outcome = "threw" -> "passthrough"
    [] stage = "empty" /\ outcome = "threw" -> "passthrough"
    [] OTHER -> "return"

\* Invoke the strategy of call site `stage`: it runs up to its first await,
\* the call of loadFFmpeg. The strategy is handed the annotation list as it
\* is and only reads it. (InvokeEmptyingList is the faulty variant in which
\* addTextOverlays has consumed the list it iterated, so that the strategies
\* after it find the list empty.)
InvokeEmptyingList(j, stage) ==
  /\ job' = [j EXCEPT !.pc = "strategy", !.stage = stage, !.step = "load",
                      !.data = NoOutput,
                      !.chars = IF stage \in {"simple", "basic", "final"}
                                  THEN <<>> ELSE @]
  /\ loadFFmpeg("job")

Invoke(j, stage) ==
  /\ job' = [j EXCEPT !.pc = "strategy", !.stage = stage, !.step = "load",
                      !.data = NoOutput]
  /\ loadFFmpeg("job")

\* The running strategy ends with `outcome`, returning `blob` when it
\* succeeded: addCharacterOverlays returns the blob, invokes the next
\* strategy, or falls to the raw passthrough.
EndStrategy(outcome, blob) ==
  LET nxt == NextStage(job.stage, outcome, Len(job.chars))
      j == [job EXCEPT !.log = Append(@, [stage |-> job.stage, outcome |-> outcome])]
  IN  CASE nxt = "return" ->
             /\ job' = [j EXCEPT !.pc = "returned", !.step = "none", !.result = blob]
             /\ UNCHANGED <<ffmpeg, engine, loadRet, loadHandle, retEngine>>
        [] nxt = "passthrough" ->
             /\ job' = [j EXCEPT !.pc = "passthrough", !.step = "none",
                                 !.copyError = job.stage]
             /\ UNCHANGED <<ffmpeg, engine, loadRet, loadHandle, retEngine>>
        [] nxt = "throw" ->
             \* an error no handler of addCharacterOverlays catches
             /\ job' = [j EXCEPT !.pc = "thrown", !.step = "none",
                                 !.causes = {StrategyAt(job.stage)}]
             /\ UNCHANGED <<ffmpeg, engine, loadRet, loadHandle, retEngine>>
        [] OTHER -> Invoke(j, nxt)

\* An engine call inside the strategy's try block threw: the strategies that
\* clean up start deleting, the others rethrow at once.
Catch ==
  IF CleansUpOnError(StrategyAt(job.stage))
    THEN /\ job' = [job EXCEPT !.step = "c_del_in"]
         /\ UNCHANGED <<ffmpeg, engine, loadRet, loadHandle, retEngine>>
    ELSE EndStrategy("threw", NoBlob)

InStep(s) == job.pc = "strategy" /\ job.step = s
Handle == loadHandle["job"]

\* processVideo: the click on the process button, which the button's
\* disabled attribute allows only when loaded, uploaded and not processing.
\* (ButtonEnabledWhileProcessing is the faulty variant without isProcessing.)
ButtonEnabledWhileProcessing == isLoaded /\ uploadedVideo # 0
ButtonEnabled == isLoaded /\ uploadedVideo # 0 /\ ~isProcessing

ProcessVideo ==
  /\ ButtonEnabled
  /\ jobs < MaxJobs
  /\ jobs' = jobs + 1
  /\ isProcessing' = TRUE
  /\ processingProgress' = 0
  /\ error' = FALSE
  /\ Invoke([IdleJob EXCEPT !.video = uploadedVideo, !.chars = characters], "probe")
  /\ UNCHANGED <<fs, listeners, calls, processedVideoUrl>>
  /\ UNCHANGED <<hookVars, pageVars, editVars, eventVars, filterVars, gestureVars>>

\* await loadFFmpeg() settles: with the handle, the strategy registers its
\* progress listener and issues fetchFile and writeFile; with the load error,
\* thrown outside the strategy's try block, the strategy throws.
StrategyLoaded ==
  /\ InStep("load")
  /\ loadRet["job"] \in {"ok", "err"}
  /\ IF loadRet["job"] = "ok"
       THEN /\ listeners' = Append(listeners, jobs)
            /\ job' = [job EXCEPT !.step = "write"]
            /\ UNCHANGED <<ffmpeg, engine, loadRet, loadHandle, retEngine>>
       ELSE /\ EndStrategy("threw", NoBlob)
            /\ UNCHANGED listeners
  /\ UNCHANGED <<fs, calls>>
  /\ UNCHANGED <<isProcessing, processingProgress, processedVideoUrl, error, jobs>>
  /\ UNCHANGED <<hookVars, pageVars, editVars, eventVars, filterVars, gestureVars>>

\* fetchFile and ffmpeg.writeFile('input.mp4', ...) succeed.
WriteOk ==
  /\ InStep("write")
  /\ EngineReady(Handle)
  /\ fs' = [fs EXCEPT !.input = TRUE]
  /\ job' = [job EXCEPT !.step = "exec"]
  /\ UNCHANGED <<ffmpeg, engine, listeners, loadRet, loadHandle, retEngine, calls>>
  /\ UNCHANGED <<isProcessing, processingProgress, processedVideoUrl, error, jobs>>
  /\ UNCHANGED <<hookVars, pageVars, editVars, eventVars, filterVars, gestureVars>>

\* fetchFile rejects, or writeFile rejects (always so on an engine that is
\* not loaded): nothing is written.
WriteThrows ==
  /\ InStep("write")
  /\ Catch
  /\ UNCHANGED <<fs, listeners, calls>>
  /\ UNCHANGED <<isProcessing, processingProgress, processedVideoUrl, error, jobs>>
  /\ UNCHANGED <<hookVars, pageVars, editVars, eventVars, filterVars, gestureVars>>

\* ffmpeg.exec resolves having written output.mp4, of zero length or not.
ExecOk(empty) ==
  /\ InStep("exec")
  /\ EngineReady(Handle)
  /\ fs' = [fs EXCEPT !.output = [present |-> TRUE, empty |-> empty, byJob |-> jobs, byStage |-> job.stage]]
  /\ job' = [job EXCEPT !.step = "read"]
  /\ UNCHANGED <<ffmpeg, engine, listeners, loadRet, loadHandle, retEngine, calls>>
  /\ UNCHANGED <<isProcessing, processingProgress, processedVideoUrl, error, jobs>>
  /\ UNCHANGED <<hookVars, pageVars, editVars, eventVars, filterVars, gestureVars>>

\* ffmpeg.exec resolves with a non-zero exit code and no output.mp4 written.
ExecNoOutput ==
  /\ InStep("exec")
  /\ EngineReady(Handle)
  /\ job' = [job EXCEPT !.step = "read"]
  /\ UNCHANGED sessionVars
  /\ UNCHANGED <<isProcessing, processingProgress, processedVideoUrl, error, jobs>>
  /\ UNCHANGED <<hookVars, pageVars, editVars, eventVars, filterVars, gestureVars>>

\* ffmpeg.exec rejects (the engine aborts), with a partial output.mp4 left
\* behind or not.
ExecThrows(partial) ==
  /\ InStep("exec")
  /\ EngineReady(Handle)
  /\ fs' = IF partial
             THEN [fs EXCEPT !.output = [present |-> TRUE, empty |-> TRUE, byJob |-> jobs, byStage |-> job.stage]]
             ELSE fs
  /\ Catch
  /\ UNCHANGED <<listeners, calls>>
  /\ UNCHANGED <<isProcessing, processingProgress, processedVideoUrl, error, jobs>>
  /\ UNCHANGED <<hookVars, pageVars, editVars, eventVars, filterVars, gestureVars>>

\* ffmpeg.readFile('output.mp4'): the data, or a throw when it is absent.
ReadFile ==
  /\ InStep("read")
  /\ IF EngineReady(Handle) /\ fs.output.present
       THEN /\ job' = [job EXCEPT !.step = "del_in", !.data = fs.output]
            /\ UNCHANGED <<ffmpeg, engine, loadRet, loadHandle, retEngine>>
       ELSE Catch
  /\ UNCHANGED <<fs, listeners, calls>>
  /\ UNCHANGED <<isProcessing, processingProgress, processedVideoUrl, error, jobs>>
  /\ UNCHANGED <<hookVars, pageVars, editVars, eventVars, filterVars, gestureVars>>

\* ffmpeg.deleteFile('input.mp4') after the read.
DeleteInput ==
  /\ InStep("del_in")
  /\ IF EngineReady(Handle) /\ fs.input
       THEN /\ fs' = [fs EXCEPT !.input = FALSE]
            /\ job' = [job EXCEPT !.step = "del_out"]
            /\ UNCHANGED <<ffmpeg, engine, loadRet, loadHandle, retEngine>>
       ELSE /\ Catch
            /\ UNCHANGED fs
  /\ UNCHANGED <<listeners, calls>>
  /\ UNCHANGED <<isProcessing, processingProgress, processedVideoUrl, error, jobs>>
  /\ UNCHANGED <<hookVars, pageVars, editVars, eventVars, filterVars, gestureVars>>

\* The blob a strategy builds from the data it read.
BlobOf(data, stage, video) ==
  [kind |-> "strategy", stage |-> stage, empty |-> data.empty, video |-> video,
   byJob |-> data.byJob, byStage |-> data.byStage]

\* ffmpeg.deleteFile('output.mp4') after the read, then return the blob.
DeleteOutput ==
  /\ InStep("del_out")
  /\ IF EngineReady(Handle) /\ fs.output.present
       THEN /\ fs' = [fs EXCEPT !.output = NoOutput]
            /\ EndStrategy("ok", BlobOf(job.data, job.stage, job.video))
       ELSE /\ Catch
            /\ UNCHANGED fs
  /\ UNCHANGED <<listeners, calls>>
  /\ UNCHANGED <<isProcessing, processingProgress, processedVideoUrl, error, jobs>>
  /\ UNCHANGED <<hookVars, pageVars, editVars, eventVars, filterVars, gestureVars>>

\* The catch block's deleteFile('input.mp4'): when it throws, the cleanup's
\* own catch swallows it, output.mp4 is not tried, and the error is rethrown.
CleanupInput ==
  /\ InStep("c_del_in")
  /\ IF EngineReady(Handle) /\ fs.input
       THEN /\ fs' = [fs EXCEPT !.input = FALSE]
            /\ job' = [job EXCEPT !.step = "c_del_out"]
            /\ UNCHANGED <<ffmpeg, engine, loadRet, loadHandle, retEngine>>
       ELSE /\ EndStrategy("threw", NoBlob)
            /\ UNCHANGED fs
  /\ UNCHANGED <<listeners, calls>>
  /\ UNCHANGED <<isProcessing, processingProgress, processedVideoUrl, error, jobs>>
  /\ UNCHANGED <<hookVars, pageVars, editVars, eventVars, filterVars, gestureVars>>

\* The catch block's deleteFile('output.mp4'), then the rethrow.
CleanupOutput ==
  /\ InStep("c_del_out")
  /\ fs' = IF EngineReady(Handle) /\ fs.output.present
             THEN [fs EXCEPT !.output = NoOutput]
             ELSE fs
  /\ EndStrategy("threw", NoBlob)
  /\ UNCHANGED <<listeners, calls>>
  /\ UNCHANGED <<isProcessing, processingProgress, processedVideoUrl, error, jobs>>
  /\ UNCHANGED <<hookVars, pageVars, editVars, eventVars, filterVars, gestureVars>>

\* ------------------------------------------------------- the last resort
\* new Blob([await fetchFile(videoFile)], {type: 'video/mp4'}): the bytes of
\* the job's video file. (OriginalBlobOfNothing is the faulty variant that
\* wraps no bytes.)
OriginalBlobOfNothing(video) ==
  [kind |-> "original", stage |-> "none", empty |-> TRUE, video |-> 0,
   byJob |-> 0, byStage |-> "none"]
OriginalBlob(video) ==
  [kind |-> "original", stage |-> "none", empty |-> FALSE, video |-> video,
   byJob |-> 0, byStage |-> "none"]

\* fetchFile resolves: the original video is returned as a blob.
PassthroughOk ==
  /\ job.pc = "passthrough"
  /\ job' = [job EXCEPT !.pc = "returned", !.passthrough = "ok",
                        !.result = OriginalBlob(job.video)]
  /\ UNCHANGED sessionVars
  /\ UNCHANGED <<isProcessing, processingProgress, processedVideoUrl, error, jobs>>
  /\ UNCHANGED <<hookVars, pageVars, editVars, eventVars, filterVars, gestureVars>>

\* The causes named in the message of the error of line 466: copyError and
\* originalError.
ErrorCauses(j) == {StrategyAt(j.copyError), "passthrough"}

\* fetchFile rejects: addCharacterOverlays throws its own error.
PassthroughThrows ==
  /\ job.pc = "passthrough"
  /\ job' = [job EXCEPT !.pc = "thrown", !.passthrough = "threw",
                        !.causes = ErrorCauses(job)]
  /\ UNCHANGED sessionVars
  /\ UNCHANGED <<isProcessing, processingProgress, processedVideoUrl, error, jobs>>
  /\ UNCHANGED <<hookVars, pageVars, editVars, eventVars, filterVars, gestureVars>>

\* ------------------------------------------------- processVideo, resumed
\* The await of addCharacterOverlays returns: expose the blob's URL, then
\* throw if the blob is empty; finally clear isProcessing.
ProcessVideoReturned ==
  /\ job.pc = "returned"
  /\ processedVideoUrl' = [set |-> TRUE, job |-> jobs, kind |-> job.result.kind,
                          empty |-> job.result.empty, video |-> job.result.video]
  /\ error' = job.result.empty
  /\ isProcessing' = FALSE
  /\ processingProgress' = 0
  /\ job' = IdleJob
  /\ UNCHANGED jobs
  /\ UNCHANGED <<sessionVars, hookVars, pageVars, editVars, eventVars, filterVars, gestureVars>>

\* The await throws: record the error; finally clear isProcessing.
\* (ProcessVideoThrewNoFinally is the faulty variant without the finally
\* block.)
ProcessVideoThrewNoFinally ==
  /\ job.pc = "thrown"
  /\ error' = TRUE
  /\ job' = IdleJob
  /\ UNCHANGED <<isProcessing, processingProgress, processedVideoUrl, jobs>>
  /\ UNCHANGED <<sessionVars, hookVars, pageVars, editVars, eventVars, filterVars, gestureVars>>

ProcessVideoThrew ==
  /\ job.pc = "thrown"
  /\ error' = TRUE
  /\ isProcessing' = FALSE
  /\ processingProgress' = 0
  /\ job' = IdleJob
  /\ UNCHANGED <<processedVideoUrl, jobs>>
  /\ UNCHANGED <<sessionVars, hookVars, pageVars, editVars, eventVars, filterVars, gestureVars>>

\* ------------------------------------------- the render core, called directly
\* The annotation lists an importer of lib/ffmpeg.ts passes to
\* addCharacterOverlays: none, or one annotation.
CallerLists ==
  {<<>>,
   <<[id |-> 1, type |-> "custom", emoji |-> "Hi", text |-> "",
      x |-> 50, y |-> 50, scale |-> 10, rotation |-> 0]>>}

\* An importer calls addCharacterOverlays(videoFile, characters, onProgress)
\* and awaits it: the call runs up to the first await of the probe. The
\* importer supplies a fresh onProgress with each call.
CallOverlays(cs) ==
  /\ job.pc = "idle"
  /\ jobs < MaxJobs
  /\ jobs' = jobs + 1
  /\ Invoke([IdleJob EXCEPT !.video = 1, !.chars = cs], "probe")
  /\ UNCHANGED <<fs, listeners, calls, isProcessing, processingProgress, processedVideoUrl, error>>
  /\ UNCHANGED <<hookVars, pageVars, editVars, eventVars, filterVars, gestureVars>>

\* The importer's await settles, with the blob or the error.
CallSettled ==
  /\ job.pc \in {"returned", "thrown"}
  /\ job' = IdleJob
  /\ UNCHANGED <<isProcessing, processingProgress, processedVideoUrl, error, jobs>>
  /\ UNCHANGED <<sessionVars, hookVars, pageVars, editVars, eventVars, filterVars, gestureVars>>

\* What the listener ({ progress }) => onProgress(progress), registered by
\* the job `owner`, passes on for the engine event ev: the event's progress.
\* (ForwardedOwn is the faulty variant that reports for the listener's own
\* job instead.)
ForwardedOwn(owner, ev) == [job |-> owner, stage |-> ev.stage]
Forwarded(owner, ev) == ev

\* The engine calls every listener registered with on('progress'), in the
\* order of registration; none was ever removed.
Dispatch(ev) ==
  [i \in 1..Len(listeners) |->
     [to |-> listeners[i], value |-> Forwarded(listeners[i], ev)]]

\* The engine emits a progress event while it executes a command.
ProgressEvent ==
  /\ InStep("exec")
  /\ EngineReady(Handle)
  /\ lastEvent' =
       [job |-> jobs, stage |-> job.stage,
        deliveries |-> Dispatch([job |-> jobs, stage |-> job.stage])]
  /\ UNCHANGED <<sessionVars, hookVars, pageVars, procVars, editVars, filterVars, gestureVars>>

\* ------------------------------------------------------ pointer gestures
\* A gesture of the user on an annotation of the preview, as the events the
\* browser dispatches for it, one after the other: a click ends every press
\* and release on one element, and a double click is two clicks and then
\* dblclick. React renders after each event, so each event goes to the
\* element that is under the pointer when it is dispatched.
GestureKinds == {"click", "drag", "dblclick"}
GestureEvents(kind) ==
  CASE kind = "click" -> <<"mousedown", "mouseup", "click">>
    [] kind = "drag" -> <<"mousedown", "mousemove", "mouseup", "click">>
    [] kind = "dblclick" -> <<"mousedown", "mouseup", "click",
                              "mousedown", "mouseup", "click", "dblclick">>

\* No gesture was made yet.
NoGesture ==
  [kind |-> "none", id |-> 0, events |-> <<>>, over |-> FALSE,
   downOn |-> "none", upOn |-> "none"]

\* The annotation of the gesture is rendered with its handlers (it is in the
\* collection and its editor is closed) and lies under the pointer.
UnderPointer ==
  /\ gesture.over
  /\ editingCharacter # gesture.id
  /\ \E k \in 1..Len(characters) : characters[k].id = gesture.id
EventTarget == IF UnderPointer THEN "annotation" ELSE "video"
NextEventIs(ev) == gesture.events # <<>> /\ Head(gesture.events) = ev

\* The user starts a gesture with the pointer on the i-th annotation.
StartGesture(kind, i) ==
  /\ videoUrl # 0
  /\ gesture.events = <<>>
  /\ i \in 1..Len(characters)
  /\ editingCharacter # characters[i].id
  /\ gesture' = [kind |-> kind, id |-> characters[i].id,
                 events |-> GestureEvents(kind), over |-> TRUE,
                 downOn |-> "none", upOn |-> "none"]
  /\ UNCHANGED <<sessionVars, hookVars, pageVars, procVars, editVars, eventVars, filterVars>>

\* mousedown: the annotation's onMouseDown is handleMouseDown; the video
\* element has no handler for it.
PointerMouseDown ==
  /\ NextEventIs("mousedown")
  /\ gesture' = [gesture EXCEPT !.events = Tail(@), !.downOn = EventTarget]
  /\ draggingCharacter' = IF UnderPointer THEN gesture.id ELSE draggingCharacter
  /\ UNCHANGED editingCharacter
  /\ UNCHANGED <<sessionVars, hookVars, pageVars, procVars, eventVars, filterVars>>

\* mousemove: the pointer leaves the annotation's box for the position ptr
\* on the video element, whose onMouseMove is handleMouseMove; the
\* annotation rendered at its new position covers the pointer or, held back
\* by the margin, does not. When it does the pointer has left the video
\* element, whose onMouseLeave is handleMouseUp.
PointerMouseMove(size, ptr, covers) ==
  /\ NextEventIs("mousemove")
  /\ gesture' = [gesture EXCEPT !.events = Tail(@), !.over = covers]
  /\ characters' =
       IF draggingCharacter # 0
         THEN MapById(characters, draggingCharacter,
                      [k \in 1..Len(characters) |->
                         DraggedTo(characters[k], PointerPercent(size, ptr))])
         ELSE characters
  /\ draggingCharacter' = IF covers THEN 0 ELSE draggingCharacter
  /\ UNCHANGED editingCharacter
  /\ UNCHANGED <<uploadedVideo, videoUrl, pendingMeta, now>>
  /\ UNCHANGED <<sessionVars, hookVars, procVars, eventVars, filterVars>>

\* mouseup: the video element's onMouseUp is handleMouseUp; the annotation
\* has no handler for it, and the video element is not its ancestor.
PointerMouseUp ==
  /\ NextEventIs("mouseup")
  /\ gesture' = [gesture EXCEPT !.events = Tail(@), !.upOn = EventTarget]
  /\ draggingCharacter' = IF UnderPointer THEN draggingCharacter ELSE 0
  /\ UNCHANGED editingCharacter
  /\ UNCHANGED <<sessionVars, hookVars, pageVars, procVars, eventVars, filterVars>>

\* click: dispatched to the element both the press and the release were on.
\* The annotation's onClick is removeCharacter; the video element's is
\* addCharacter, which asks for a text with prompt(); a press and a release
\* on different elements click their common ancestor, which has no handler.
PointerClick(size, ptr, t) ==
  /\ NextEventIs("click")
  /\ gesture' = [gesture EXCEPT !.events = Tail(@)]
  /\ CASE gesture.downOn = "annotation" /\ gesture.upOn = "annotation" ->
            /\ characters' = WithoutId(characters, gesture.id)
            /\ UNCHANGED now
       [] gesture.downOn = "video" /\ gesture.upOn = "video" ->
            \E ms \in now..MaxTime :
              /\ now' = ms
              /\ characters' =
                   IF t # "" /\ Len(characters) < MaxChars
                     THEN Append(characters,
                            [id |-> ms, type |-> "custom", emoji |-> t, text |-> "",
                             x |-> PointerPercent(size, ptr).x,
                             y |-> PointerPercent(size, ptr).y,
                             scale |-> 10, rotation |-> 0])
                     ELSE characters
       [] OTHER -> UNCHANGED <<characters, now>>
  /\ UNCHANGED <<uploadedVideo, videoUrl, pendingMeta>>
  /\ UNCHANGED <<sessionVars, hookVars, procVars, editVars, eventVars, filterVars>>

\* dblclick: the annotation's onDoubleClick is startEditingCharacter; the
\* video element has no handler for it.
PointerDblClick ==
  /\ NextEventIs("dblclick")
  /\ gesture' = [gesture EXCEPT !.events = Tail(@)]
  /\ editingCharacter' = IF UnderPointer THEN gesture.id ELSE editingCharacter
  /\ UNCHANGED draggingCharacter
  /\ UNCHANGED <<sessionVars, hookVars, pageVars, procVars, eventVars, filterVars>>

\* The values of `progress` the engine reports, in percent.
ProgressValues == {50, 100}

\* The engine emits a progress event while it executes a command of a
\* processVideo job: every registered listener forwards it to the onProgress
\* of processVideo, which calls setProcessingProgress(progress * 100).
JobProgress(p) ==
  /\ InStep("exec")
  /\ EngineReady(Handle)
  /\ isProcessing
  /\ lastEvent' =
       [job |-> jobs, stage |-> job.stage,
        deliveries |-> Dispatch([job |-> jobs, stage |-> job.stage])]
  /\ processingProgress' = IF listeners = <<>> THEN processingProgress ELSE p
  /\ UNCHANGED <<isProcessing, processedVideoUrl, error, jobs, job>>
  /\ UNCHANGED <<sessionVars, hookVars, pageVars, editVars, filterVars, gestureVars>>

\* ------------------------------------------------------ the filter builders
\* The strategies' filter expressions, computed as lib/ffmpeg.ts computes
\* them. A text is a sequence of characters here, so that its escaping can
\* be followed character by character; <<>> is the empty string.
BS == "\\"
Alphabet == {BS, "'", ":", "[", "]", "a"}
AlphaTexts == UNION {[1..n -> Alphabet] : n \in 0..MaxTextLen}

\* The frame the builders assume, and the palette of addColoredBoxes.
videoWidth == 1088
videoHeight == 1920
colors == <<"red", "blue", "green", "yellow", "purple", "orange">>

\* Math.round(num / den) for num >= 0, den > 0 (halves round up).
MathRound(num, den) == (2 * num + den) \div (2 * den)

\* String.prototype.replace(/c/g, r): every occurrence of the character c
\* gives way to the characters r, left to right.
RECURSIVE ReplaceAll(_, _, _)
ReplaceAll(t, c, r) ==
  IF t = <<>> THEN <<>>
  ELSE (IF Head(t) = c THEN r ELSE <<Head(t)>>) \o ReplaceAll(Tail(t), c, r)

\* textToDisplay.replace(/'/g, "\\'").replace(/:/g, "\\:")
escapedText(t) == ReplaceAll(ReplaceAll(t, "'", <<BS, "'">>), ":", <<BS, ":">>)

\* addTextOverlays: char.text || char.emoji
textToDisplay(char) == IF char.text # <<>> THEN char.text ELSE char.emoji

\* addSimpleTextOverlay: characters[0]?.text || characters[0]?.emoji || 'TEXT'
simpleTextToDisplay(cs) ==
  IF cs # <<>> /\ cs[1].text # <<>> THEN cs[1].text
  ELSE IF cs # <<>> /\ cs[1].emoji # <<>> THEN cs[1].emoji
  ELSE <<"T", "E", "X", "T">>

\* addTextOverlays: the pixel position and the font size of one annotation
\* (scale in tenths). TextXUnclamped and TextFontSizeUnclamped are the
\* faulty variants without Math.max and Math.min.
TextXUnclamped(char) == MathRound(char.x * videoWidth, 100)
TextFontSizeUnclamped(char) == MathRound(32 * char.scale, 10)
TextX(char) ==
  MathMax(10, MathMin(videoWidth - 200, MathRound(char.x * videoWidth, 100)))
TextY(char) ==
  MathMax(10, MathMin(videoHeight - 50, MathRound(char.y * videoHeight, 100)))
TextFontSize(char) ==
  MathMax(20, MathMin(60, MathRound(32 * char.scale, 10)))

\* One part of a filter expression: a drawtext with its quoted text.
DrawText(t, px, py, size, boxed) ==
  [filter |-> "drawtext", text |-> t, x |-> px, y |-> py,
   fontsize |-> size, fontcolor |-> "white", box |-> boxed]

\* addTextOverlays: filterParts after the forEach; the sequence stands for
\* filterParts.join(','), and <<>> for the empty string an empty list gives.
TextFilterParts(cs) ==
  [i \in 1..Len(cs) |->
     DrawText(escapedText(textToDisplay(cs[i])),
              TextX(cs[i]), TextY(cs[i]), TextFontSize(cs[i]), FALSE)]

\* addColoredBoxes: position, size and color of the box of the annotation
\* at the 0-based index. BoxColorNoCycle is the faulty variant that stays on
\* the last color instead of starting the palette again.
BoxX(char) ==
  MathMax(10, MathMin(videoWidth - 100, MathRound(char.x * videoWidth, 100)))
BoxY(char) ==
  MathMax(10, MathMin(videoHeight - 100, MathRound(char.y * videoHeight, 100)))
BoxSize(char) == MathMax(20, MathMin(80, MathRound(40 * char.scale, 10)))
BoxColorNoCycle(index) == colors[MathMin(index, Len(colors) - 1) + 1]
BoxColor(index) == colors[(index % Len(colors)) + 1]

BoxFilterParts(cs) ==
  [i \in 1..Len(cs) |->
     [filter |-> "drawbox", x |-> BoxX(cs[i]), y |-> BoxY(cs[i]),
      w |-> BoxSize(cs[i]), h |-> BoxSize(cs[i]),
      color |-> BoxColor(i - 1), t |-> "fill"]]

\* The annotation lists the builders are called with: one annotation with
\* every text and entry text, with every position, with every scale of the
\* slider and some rotations, and lists of two kinds of annotation.
Annotation(t, e, px, py, s, r) ==
  [id |-> 1, type |-> "custom", emoji |-> e, text |-> t,
   x |-> px, y |-> py, scale |-> s, rotation |-> r]
TextSnapshots ==
  {<<Annotation(t, e, 50, 50, 10, 0)>> : t \in AlphaTexts, e \in {<<>>, <<"a">>}}
PositionSnapshots ==
  {<<Annotation(<<>>, <<"a">>, px, py, 10, 0)>> : px \in 0..100, py \in 0..100}
ScaleSnapshots ==
  {<<Annotation(<<>>, <<"a">>, 50, 50, s, r)>> : s \in 5..20, r \in {0, 90, 360}}
ListEntries ==
  {Annotation(<<"a">>, <<"a">>, 0, 100, 5, 0),
   Annotation(<<>>, <<":">>, 100, 0, 20, 90)}
ListSnapshots == UNION {[1..n -> ListEntries] : n \in 0..MaxListLen}
Snapshots ==
  TextSnapshots \cup PositionSnapshots \cup ScaleSnapshots \cup ListSnapshots

\* No strategy was called yet.
NoBuild == [strategy |-> "none", execs |-> <<>>]

\* addTextOverlays(videoFile, snapshot): one exec with the joined parts.
BuildTextOverlays ==
  /\ built = NoBuild
  /\ built' = [strategy |-> "text", execs |-> <<TextFilterParts(snapshot)>>]
  /\ UNCHANGED snapshot
  /\ UNCHANGED <<sessionVars, hookVars, pageVars, procVars, editVars, eventVars, gestureVars>>

\* addSimpleTextOverlay(videoFile, snapshot): one exec drawing the first
\* annotation's text at a fixed place.
BuildSimpleTextOverlay ==
  /\ built = NoBuild
  /\ built' = [strategy |-> "simple",
               execs |-> << <<DrawText(escapedText(simpleTextToDisplay(snapshot)),
                                       50, 50, 24, FALSE)>> >>]
  /\ UNCHANGED snapshot
  /\ UNCHANGED <<sessionVars, hookVars, pageVars, procVars, editVars, eventVars, gestureVars>>

\* addBasicTextOverlay(videoFile): one exec drawing the fixed text TEST.
BuildBasicTextOverlay ==
  /\ built = NoBuild
  /\ built' = [strategy |-> "basic",
               execs |-> << <<DrawText(<<"T", "E", "S", "T">>, 50, 50, 32, TRUE)>> >>]
  /\ UNCHANGED snapshot
  /\ UNCHANGED <<sessionVars, hookVars, pageVars, procVars, editVars, eventVars, gestureVars>>

\* addColoredBoxes(videoFile, snapshot): one exec with the joined boxes.
BuildColoredBoxes ==
  /\ built = NoBuild
  /\ built' = [strategy |-> "boxes", execs |-> <<BoxFilterParts(snapshot)>>]
  /\ UNCHANGED snapshot
  /\ UNCHANGED <<sessionVars, hookVars, pageVars, procVars, editVars, eventVars, gestureVars>>

\* ------------------------------------------------------------------- init
\* The state after construction, but for the filter builders' call.
InitApp ==
  /\ ffmpeg = 0
  /\ engine = <<>>
  /\ fs = EmptyFs
  /\ listeners = <<>>
  /\ loadRet = [c \in Callers |-> "none"]
  /\ loadHandle = [c \in Callers |-> 0]
  /\ retEngine = [c \in Callers |-> "none"]
  /\ calls = [c \in Clients |-> 0]
  /\ isLoaded = FALSE
  /\ isLoading = FALSE
  /\ ffmpegError = FALSE
  /\ effectPending = TRUE
  /\ uploadedVideo = 0
  /\ videoUrl = 0
  /\ characters = <<>>
  /\ pendingMeta = {}
  /\ now = 1
  /\ isProcessing = FALSE
  /\ processingProgress = 0
  /\ processedVideoUrl = NoUrl
  /\ error = FALSE
  /\ jobs = 0
  /\ job = IdleJob
  /\ draggingCharacter = 0
  /\ editingCharacter = 0
  /\ lastEvent = NoEvent
  /\ gesture = NoGesture

Init ==
  /\ InitApp
  /\ snapshot = <<>>
  /\ built = NoBuild

\* The encoder session manager under its callers alone: the hook and the
\* importers call loadFFmpeg in any interleaving with the load's completion.
NextSession ==
  \/ LoadSucceeds
  \/ LoadFails
  \/ \E c \in Clients : ClientCall(c)
  \/ \E c \in Clients : ClientResume(c)
  \/ HookEffect
  \/ HookLoaded
  \/ HookFailed

SpecSession == Init /\ [][NextSession]_vars

\* The application: the hook loads the engine, the user uploads, annotates
\* and clicks the process button, and the job runs its strategies.
Next ==
  \/ LoadSucceeds
  \/ LoadFails
  \/ HookEffect
  \/ HookLoaded
  \/ HookFailed
  \/ \E f \in Files : HandleVideoUpload(f)
  \/ \E f \in Files : OnLoadedMetadata(f)
  \/ \E t \in Texts : AddCustomText(t)
  \/ \E i \in 1..MaxChars : RemoveCharacter(i)
  \/ ProcessVideo
  \/ StrategyLoaded
  \/ WriteOk
  \/ WriteThrows
  \/ \E empty \in BOOLEAN : ExecOk(empty)
  \/ ExecNoOutput
  \/ \E partial \in BOOLEAN : ExecThrows(partial)
  \/ ReadFile
  \/ DeleteInput
  \/ DeleteOutput
  \/ CleanupInput
  \/ CleanupOutput
  \/ PassthroughOk
  \/ PassthroughThrows
  \/ ProcessVideoReturned
  \/ ProcessVideoThrew

Spec == Init /\ [][Next]_vars

\* The render core under an importer that calls addCharacterOverlays
\* directly, one call at a time, with nobody having loaded the engine first.
NextCore ==
  \/ LoadSucceeds
  \/ LoadFails
  \/ \E cs \in CallerLists : CallOverlays(cs)
  \/ CallSettled
  \/ StrategyLoaded
  \/ WriteOk
  \/ WriteThrows
  \/ \E empty \in BOOLEAN : ExecOk(empty)
  \/ ExecNoOutput
  \/ \E partial \in BOOLEAN : ExecThrows(partial)
  \/ ProgressEvent
  \/ ReadFile
  \/ DeleteInput
  \/ DeleteOutput
  \/ CleanupInput
  \/ CleanupOutput
  \/ PassthroughOk
  \/ PassthroughThrows

SpecCore == Init /\ [][NextCore]_vars

\* The editing session: the user uploads, adds annotations by the text box
\* and by clicks on the preview, drags them, moves their sliders, edits
\* their text and removes them.
NextEdit ==
  \/ \E f \in ShortVideos : HandleVideoUpload(f)
  \/ \E f \in ShortVideos : OnLoadedMetadata(f)
  \/ \E t \in Texts : AddCustomText(t)
  \/ \E size \in VideoSizes, ptr \in Pointers, t \in Texts : AddCharacter(size, ptr, t)
  \/ \E i \in 1..MaxChars : RemoveCharacter(i)
  \/ \E i \in 1..MaxChars : HandleMouseDown(i)
  \/ \E size \in VideoSizes, ptr \in Pointers : HandleMouseMove(size, ptr)
  \/ HandleMouseUp
  \/ \E i \in 1..MaxChars : StartEditingCharacter(i)
  \/ \E t \in EditTexts : SaveCharacterEdit(t)
  \/ CancelEdit
  \/ \E i \in 1..MaxChars, field \in Sliders :
       \E raw \in SliderRaw(field) : UpdateCharacter(i, field, raw)

SpecEdit == Init /\ [][NextEdit]_vars

\* Uploads against a growing collection: the user offers files, their
\* metadata loads in any order, and annotations are added by the Add button
\* (enabled for a non-blank text) and turned by their rotation slider.
NextUpload ==
  \/ \E f \in Files : HandleVideoUpload(f)
  \/ \E f \in Files : OnLoadedMetadata(f)
  \/ \E t \in Texts \ {""} : AddCustomText(t)
  \/ \E i \in 1..MaxChars :
       \E raw \in SliderRaw("rotation") : UpdateCharacter(i, "rotation", raw)

SpecUpload == Init /\ [][NextUpload]_vars

\* The filter builders called directly, each on any annotation list.
InitFilter ==
  /\ InitApp
  /\ snapshot \in Snapshots
  /\ built = NoBuild

NextFilter ==
  \/ BuildTextOverlays
  \/ BuildSimpleTextOverlay
  \/ BuildBasicTextOverlay
  \/ BuildColoredBoxes

SpecFilter == InitFilter /\ [][NextFilter]_vars

\* Gestures on the preview: the user uploads the short video once, adds
\* annotations with the text box, and clicks, drags and double-clicks them;
\* an editor that opens is saved or cancelled.
NextGesture ==
  \/ uploadedVideo = 0 /\ pendingMeta = {} /\ \E f \in ShortVideos : HandleVideoUpload(f)
  \/ \E f \in ShortVideos : OnLoadedMetadata(f)
  \/ \E t \in Texts \ {""} : AddCustomText(t)
  \/ \E kind \in GestureKinds, i \in 1..MaxChars : StartGesture(kind, i)
  \/ PointerMouseDown
  \/ \E size \in VideoSizes, ptr \in Pointers, covers \in BOOLEAN :
       PointerMouseMove(size, ptr, covers)
  \/ PointerMouseUp
  \/ \E size \in VideoSizes, ptr \in Pointers, t \in Texts : PointerClick(size, ptr, t)
  \/ PointerDblClick
  \/ \E t \in EditTexts : SaveCharacterEdit(t)
  \/ CancelEdit

SpecGesture == Init /\ [][NextGesture]_vars

\* The job under an engine whose every call settles: the hook loads the
\* engine, the user uploads the short video once and adds one annotation
\* before pressing the button, and processVideo runs its jobs with progress
\* events arriving during the commands.
EngineCallSettles ==
  \/ LoadSucceeds
  \/ LoadFails
  \/ StrategyLoaded
  \/ WriteOk
  \/ WriteThrows
  \/ \E empty \in BOOLEAN : ExecOk(empty)
  \/ ExecNoOutput
  \/ \E partial \in BOOLEAN : ExecThrows(partial)
  \/ ReadFile
  \/ DeleteInput
  \/ DeleteOutput
  \/ CleanupInput
  \/ CleanupOutput
  \/ PassthroughOk
  \/ PassthroughThrows

\* processVideo resumes after its await.
ProcessVideoResumes ==
  \/ ProcessVideoReturned
  \/ ProcessVideoThrew

NextJob ==
  \/ HookEffect
  \/ HookLoaded
  \/ HookFailed
  \/ uploadedVideo = 0 /\ pendingMeta = {} /\ \E f \in ShortVideos : HandleVideoUpload(f)
  \/ \E f \in ShortVideos : OnLoadedMetadata(f)
  \/ characters = <<>> /\ jobs = 0 /\ \E t \in Texts \ {""} : AddCustomText(t)
  \/ ProcessVideo
  \/ \E p \in ProgressValues : JobProgress(p)
  \/ EngineCallSettles
  \/ ProcessVideoResumes

SpecJob ==
  /\ Init
  /\ [][NextJob]_vars
  /\ WF_vars(EngineCallSettles)
  /\ WF_vars(ProcessVideoResumes)

\* ------------------------------------------------- the job, as observed
\* The call sites invoked so far in the current job, in order, and the
\* strategies they invoke.
InvokedStages ==
  [i \in 1..Len(job.log) |-> job.log[i].stage]
    \o (IF job.pc = "strategy" THEN <<job.stage>> ELSE <<>>)
InvokedNames == [i \in 1..Len(InvokedStages) |-> StrategyAt(InvokedStages[i])]
Threw(i) == job.log[i].outcome = "threw"
NameAt(i) == StrategyAt(job.log[i].stage)
Done == job.pc \in {"returned", "thrown"}
IsPrefix(a, b) == Len(a) <= Len(b) /\ \A i \in 1..Len(a) : a[i] = b[i]
Times(name) == Cardinality({i \in 1..Len(InvokedNames) : InvokedNames[i] = name})

\* The escalation chain of the overlay strategies, and the whole order of
\* engine runs of a job with annotations.
OverlayChain ==
  <<"addTextOverlays", "addSimpleTextOverlay", "addBasicTextOverlay", "justCopyVideo">>
RunOrder == <<"justCopyVideo">> \o OverlayChain
\* The chain as the specification words it.
SpecChain ==
  <<"addTextOverlays", "addSimpleTextOverlay", "addColoredBoxes", "justCopyVideo">>

\* Every attempt of the job failed, the first safe re-encode possibly apart.
EveryAttemptFailed ==
  /\ job.log # <<>>
  /\ \A i \in 2..Len(job.log) : Threw(i)
  /\ Threw(1) \/ Len(job.log) > 1

\* ------------------------------------------------------------------ claims

\* C1 (as stated): whenever a strategy fails the next strategy of the chain
\* is invoked next, and no strategy, justCopyVideo included, is invoked a
\* second time within one job.
C1_NoStrategyInvokedTwice ==
  \A i, k \in 1..Len(InvokedNames) : i # k => InvokedNames[i] # InvokedNames[k]

\* C1 (amended): a failed overlay strategy is followed at once by the next
\* strategy of the chain addTextOverlays, addSimpleTextOverlay,
\* addBasicTextOverlay, justCopyVideo; a strategy that failed is not invoked
\* again in the job; each overlay strategy runs at most once and
\* justCopyVideo at most twice (the probe, then the returned re-encode).
C1_EscalationOrder ==
  /\ \A i \in 1..Len(job.log) :
       Threw(i) =>
         /\ \A k \in 1..Len(InvokedNames) : k > i => InvokedNames[k] # NameAt(i)
         /\ \A n \in 1..3 :
              NameAt(i) = OverlayChain[n] =>
                /\ Len(InvokedNames) > i
                /\ InvokedNames[i + 1] = OverlayChain[n + 1]
         /\ NameAt(i) = "justCopyVideo" => Len(InvokedNames) = i
  /\ \A n \in 1..3 : Times(OverlayChain[n]) <= 1
  /\ Times("justCopyVideo") <= 2

\* C1 witness: the three overlay strategies failed in turn and the final
\* justCopyVideo is running.
C1_Witness ==
  /\ job.pc = "strategy" /\ job.stage = "final"
  /\ Len(job.log) = 4 /\ Threw(2) /\ Threw(3) /\ Threw(4)

\* C2: a zero-length output of a strategy is never returned by
\* addCharacterOverlays to its caller.
C2_EmptyBlobNotReturned ==
  job.pc = "returned" => ~job.result.empty

\* C3 (as stated): when every attempted strategy failed, the job returns the
\* original video's bytes and does not throw.
C3_ExhaustionReturnsOriginal ==
  Done /\ EveryAttemptFailed =>
    /\ job.pc = "returned"
    /\ job.result = OriginalBlob(job.video)

\* C3 (amended): when every attempted strategy failed and the read of the
\* original file for the raw passthrough does not itself fail, the job
\* returns the original video's bytes and does not throw.
C3_ExhaustionPassthrough ==
  Done /\ EveryAttemptFailed /\ job.passthrough # "threw" =>
    /\ job.pc = "returned"
    /\ job.result.kind = "original"
    /\ job.result.video = job.video
    /\ job.result.video # 0
    /\ ~job.result.empty

\* C3 witness: the probe succeeded, every later attempt failed, and the
\* original was returned.
C3_Witness ==
  /\ job.pc = "returned" /\ job.result.kind = "original"
  /\ Len(job.log) = 5 /\ ~Threw(1)

\* C4 (as stated): the job throws only when every strategy of the chain has
\* failed and the raw passthrough has failed too.
C4_ThrowsOnlyWhenAllFourFailed ==
  job.pc = "thrown" =>
    /\ job.passthrough = "threw"
    /\ \A n \in 1..4 : \E i \in 1..Len(job.log) : NameAt(i) = OverlayChain[n] /\ Threw(i)

\* C4 (amended): the job throws only when the raw passthrough has failed,
\* which is tried only after a justCopyVideo invocation (the probe or the
\* last re-encode) failed; every strategy the job invoked failed at its last
\* invocation, but the overlay strategies need not have run at all. In every
\* other execution the job returns a blob, and the error the caller sees is
\* the orchestrator's own, never a strategy's.
C4_ThrowsOnlyAfterPassthroughFailed ==
  /\ job.pc = "thrown" =>
       /\ job.passthrough = "threw"
       /\ "passthrough" \in job.causes
       /\ job.log # <<>>
       /\ Threw(Len(job.log)) /\ NameAt(Len(job.log)) = "justCopyVideo"
       /\ \A i \in 1..Len(job.log) :
            \E k \in i..Len(job.log) : NameAt(k) = NameAt(i) /\ Threw(k)
  /\ Done /\ job.passthrough # "threw" => job.pc = "returned"
  /\ job.pc = "passthrough" => Threw(Len(job.log))

\* C4 witness: one strategy failure (the probe) and the passthrough failure
\* make the job throw.
C4_Witness ==
  job.pc = "thrown" /\ Len(job.log) = 1

\* C5: when all four strategies and the passthrough failed, the error thrown
\* carries the cause of each of the four strategies.
C5_ErrorCarriesFourCauses ==
  (/\ job.pc = "thrown"
   /\ \A n \in 1..4 : \E i \in 1..Len(job.log) : NameAt(i) = OverlayChain[n] /\ Threw(i))
    => \A n \in 1..4 : OverlayChain[n] \in job.causes

\* C6: with an empty annotation list no overlay strategy is invoked, and the
\* blob of a job that ends with a successful strategy is justCopyVideo's.
C6_EmptyListOnlyCopies ==
  job.pc # "idle" /\ job.chars = <<>> =>
    /\ \A i \in 1..Len(InvokedNames) : InvokedNames[i] = "justCopyVideo"
    /\ (job.pc = "returned" /\ ~Threw(Len(job.log))) =>
         /\ job.result.kind = "strategy"
         /\ StrategyAt(job.result.stage) = "justCopyVideo"
         /\ job.result.byJob = jobs

\* C6 witness: a job with no annotations returned a justCopyVideo blob.
C6_Witness ==
  /\ job.pc = "returned" /\ job.chars = <<>>
  /\ job.result.kind = "strategy"

C8_NamespaceCleanBetweenAttempts ==
  ~(job.pc = "strategy" /\ job.step # "load") => fs = EmptyFs

\* C9: the engine is constructed, and its load started, at most once, and
\* every caller of loadFFmpeg holds the same handle, the module's.
C9_OneEngineOneHandle ==
  /\ Len(engine) <= 1
  /\ \A c \in Callers : loadHandle[c] # 0 => loadHandle[c] = ffmpeg
  /\ \A c, d \in Callers :
       loadHandle[c] # 0 /\ loadHandle[d] # 0 => loadHandle[c] = loadHandle[d]

\* C9 witness: one importer was handed the handle while the load was in
\* flight, another after it succeeded, and the hook constructed it.
C9_Witness ==
  /\ retEngine["c1"] = "loading"
  /\ retEngine["c2"] = "loaded"
  /\ loadHandle["c1"] = loadHandle["c2"]
  /\ loadHandle["hook"] = loadHandle["c1"]

\* C10: loadFFmpeg hands out a handle only when that handle's engine has
\* loaded, and no engine command is issued on a handle that has not.
C10_OnlyLoadedHandles ==
  /\ \A c \in Callers : retEngine[c] \in {"none", "loaded"}
  /\ (job.pc = "strategy" /\ job.step # "load") => EngineReady(Handle)

\* The deliveries of the last progress event to the onProgress of job k.
DeliveriesTo(k) ==
  {i \in 1..Len(lastEvent.deliveries) : lastEvent.deliveries[i].to = k}

\* C11: when the engine's initialization fails during a job, the job ends
\* with the initialization error and returns no blob, and the engine is not
\* constructed a second time.
C11_InitFailureIsFatal ==
  /\ (job.pc \in {"returned", "thrown"} /\ loadRet["job"] = "err") =>
       /\ job.pc = "thrown"
       /\ "init" \in job.causes
  /\ Len(engine) <= 1

\* C12: each engine progress event reaches the onProgress of the running
\* job at most once and reaches no onProgress of an earlier job.
C12_AtMostOnceDelivery ==
  \A k \in 1..MaxJobs :
    /\ Cardinality(DeliveriesTo(k)) <= 1
    /\ k # lastEvent.job => DeliveriesTo(k) = {}

C14_OneJobInFlight ==
  /\ ButtonEnabled => job.pc = "idle"
  /\ job.pc # "idle" => isProcessing

\* C14 witness: after the first job finished, a second click started the
\* second job, whose engine command is executing.
C14_Witness ==
  /\ jobs = 2 /\ isProcessing
  /\ job.pc = "strategy" /\ job.step = "exec"

\* C15: when processVideo has finished a job, a processed result of that
\* job and an error are never exposed together.
C15_ResultOrError ==
  (~isProcessing /\ jobs > 0 /\ error) =>
    ~(processedVideoUrl.set /\ processedVideoUrl.job = jobs)

\* C16: no step of addCharacterOverlays or of a strategy changes the
\* annotation collection, and the list the job was handed is the same
\* list, with the same annotations, after every step up to the job's end.
C16_CoreLeavesAnnotationsAlone ==
  [][job' # job =>
       /\ characters' = characters
       /\ (job.pc # "idle" /\ job'.pc # "idle") => job'.chars = job.chars
       /\ (job.pc = "idle" /\ job'.pc # "idle") => job'.chars \in CallerLists]_vars

\* C16 witness: a job with an annotation went through all five strategy
\* invocations and returned, its list as it was handed over.
C16_Witness ==
  /\ job.pc = "returned" /\ Len(job.log) = 5
  /\ job.chars \in CallerLists \ {<<>>}

\* A JavaScript number between two bounds (NaN is between none).
Within(v, lo, hi) == v # NaN /\ lo <= v /\ v <= hi

\* C17: every annotation of the collection has x and y within [5, 95].
C17_PositionsWithinMargins ==
  \A k \in 1..Len(characters) :
    /\ Within(characters[k].x, Margin, 100 - Margin)
    /\ Within(characters[k].y, Margin, 100 - Margin)

\* C18: every annotation of the collection has a scale within [0.5, 2.0]
\* (5 to 20 tenths), whatever the scale slider was pushed to.
C18_ScaleWithinRange ==
  \A k \in 1..Len(characters) : Within(characters[k].scale, 5, 20)

\* C18 witness: updateCharacter stored both ends of the range, after the
\* thumb was pushed to either end of the scale slider.
C18_Witness ==
  /\ Len(characters) = 2
  /\ characters[1].scale = 5
  /\ characters[2].scale = 20

\* C19: every annotation of the collection has 0 <= rotation < 360.
C19_RotationHalfOpen ==
  \A k \in 1..Len(characters) :
    /\ Within(characters[k].rotation, 0, 360)
    /\ characters[k].rotation # 360

\* C20: no two annotations of the collection share an id, for any timing
\* of the add operations.
C20_IdsUnique ==
  \A i, k \in 1..Len(characters) :
    i # k => characters[i].id # characters[k].id

\* C29: the blob a strategy returns holds the output written by the engine
\* command of that same invocation, never an output.mp4 left behind by an
\* earlier attempt or an earlier job.
C29_BlobIsOwnOutput ==
  /\ (job.pc = "returned" /\ job.result.kind = "strategy") =>
       /\ job.result.byJob = jobs
       /\ job.result.byStage = job.result.stage
  /\ (job.pc = "strategy" /\ job.data.present) =>
       /\ job.data.byJob = jobs
       /\ job.data.byStage = job.stage

\* C30: the hook reports isLoaded only for an engine whose load completed,
\* and keeps the load error for as long as the engine's load has failed.
C30_LoadedOnlyIfEngineLoaded ==
  /\ isLoaded => EngineReady(ffmpeg)
  /\ (ffmpeg # 0 /\ engine[ffmpeg] = "failed" /\ ~isLoading /\ loadRet["hook"] = "none")
       => ffmpegError

\* The files whose metadata loaded in the step, and whether one of them
\* was accepted or rejected by the duration test.
LoadedInStep == pendingMeta \ pendingMeta'
AcceptedInStep == \E f \in LoadedInStep : FileDuration(f) <= MaxDuration
RejectedInStep == \E f \in LoadedInStep : FileDuration(f) > MaxDuration

\* The file passes the upload validation.
ValidUpload(f) == FileIsVideo(f) /\ FileDuration(f) <= MaxDuration

\* C21: the step that accepts an uploaded video, and any step that changes
\* the uploaded video, leaves the annotation collection empty.
C21_AcceptedUploadResets ==
  [][(AcceptedInStep \/ uploadedVideo' # uploadedVideo) =>
       /\ characters' = <<>>
       /\ uploadedVideo' \in LoadedInStep
       /\ videoUrl' = uploadedVideo']_vars

\* C21 witness: an annotation was added at the last clock reading (nothing
\* but an add moves the clock, and nothing here removes an annotation), and
\* the collection is empty with a video accepted.
C21_Witness ==
  /\ now = MaxTime
  /\ uploadedVideo # 0
  /\ characters = <<>>

BuiltFilter == built.execs[1]

\* The unescaping of the engine's filter mini-language: a backslash quotes
\* the character after it.
RECURSIVE Unescape(_)
Unescape(t) ==
  IF t = <<>> THEN <<>>
  ELSE IF Head(t) = BS
         THEN IF Len(t) = 1 THEN <<>>
              ELSE <<t[2]>> \o Unescape(SubSeq(t, 3, Len(t)))
         ELSE <<Head(t)>> \o Unescape(Tail(t))

\* clamp(v, lo, hi) as the specification writes it.
Clamp(v, lo, hi) == IF v < lo THEN lo ELSE IF v > hi THEN hi ELSE v

\* C23: in every text-drawing strategy the text of a drawtext part is never
\* the empty string, and the full-text strategy draws the edited text if it
\* is non-empty, else the entry text.
C23_RenderedTextNeverEmpty ==
  built.strategy \in {"text", "simple", "basic"} =>
    \A i \in 1..Len(BuiltFilter) :
      /\ BuiltFilter[i].text # <<>>
      /\ built.strategy = "text" =>
           BuiltFilter[i].text =
             escapedText(IF snapshot[i].text # <<>> THEN snapshot[i].text
                         ELSE snapshot[i].emoji)

\* C24: the escaped text of the first drawtext part, unescaped by the filter
\* mini-language, is the text the strategy set out to draw.
C24_EscapingRoundTrips ==
  /\ (built.strategy = "text" /\ snapshot # <<>>) =>
       Unescape(BuiltFilter[1].text) = textToDisplay(snapshot[1])
  /\ built.strategy = "simple" =>
       Unescape(BuiltFilter[1].text) = simpleTextToDisplay(snapshot)

\* C25: for positions in [0, 100] every pixel position a strategy puts in
\* its filter lies within [10, 1088 - 10] across and [10, 1920 - 10] down.
C25_PixelWithinMargins ==
  built.strategy # "none" =>
    \A i \in 1..Len(BuiltFilter) :
      /\ Within(BuiltFilter[i].x, 10, 1088 - 10)
      /\ Within(BuiltFilter[i].y, 10, 1920 - 10)

\* C25 witness: the full-text strategy was called with an annotation at the
\* right and top edges, and both ends of its clamps were applied.
C25_Witness ==
  /\ built.strategy = "text"
  /\ Len(snapshot) = 1 /\ snapshot[1].x = 100 /\ snapshot[1].y = 0
  /\ BuiltFilter[1].x = 1088 - 200 /\ BuiltFilter[1].y = 10

\* C26: called with n >= 1 annotations the full-text strategy issues one
\* exec whose filter has n drawtext parts in list order, the i-th with the
\* clamped position and font size of the i-th annotation, whatever its
\* rotation.
C26_OneExecOfOrderedParts ==
  (built.strategy = "text" /\ Len(snapshot) >= 1) =>
    /\ Len(built.execs) = 1
    /\ Len(BuiltFilter) = Len(snapshot)
    /\ \A i \in 1..Len(snapshot) :
         /\ BuiltFilter[i].filter = "drawtext"
         /\ BuiltFilter[i].x =
              Clamp(MathRound(snapshot[i].x * 1088, 100), 10, 1088 - 200)
         /\ BuiltFilter[i].y =
              Clamp(MathRound(snapshot[i].y * 1920, 100), 10, 1920 - 50)
         /\ BuiltFilter[i].fontsize =
              Clamp(MathRound(32 * snapshot[i].scale, 10), 20, 60)

\* C26 witness: the full-text strategy was called with a list of the
\* greatest length whose first two annotations differ in position, scale
\* and rotation, and the parts differ in the same way.
C26_Witness ==
  /\ built.strategy = "text"
  /\ Len(snapshot) = MaxListLen
  /\ snapshot[1].rotation = 0 /\ snapshot[2].rotation = 90
  /\ BuiltFilter[1].x = 10 /\ BuiltFilter[2].x = 1088 - 200
  /\ BuiltFilter[1].fontsize = 20 /\ BuiltFilter[2].fontsize = 60

\* C27: called with an empty annotation list, the full-text and the
\* colored-box strategies issue their exec with an identity filter, not with
\* an empty expression.
C27_EmptyListGivesIdentity ==
  (snapshot = <<>> /\ built.strategy \in {"text", "boxes"}) =>
    /\ Len(built.execs) = 1
    /\ BuiltFilter # <<>>
    /\ \A i \in 1..Len(BuiltFilter) : BuiltFilter[i].filter = "null"

\* C28: the colored-box strategy issues one exec with one drawbox per
\* annotation in list order, the i-th (0-based) a square of side
\* clamp(round(40 * scale), 20, 80) in the color palette[i mod 6].
C28_OneBoxPerAnnotation ==
  built.strategy = "boxes" =>
    /\ Len(built.execs) = 1
    /\ Len(BuiltFilter) = Len(snapshot)
    /\ \A k \in 1..Len(snapshot) :
         /\ BuiltFilter[k].filter = "drawbox"
         /\ BuiltFilter[k].x =
              Clamp(MathRound(snapshot[k].x * 1088, 100), 10, 1088 - 100)
         /\ BuiltFilter[k].y =
              Clamp(MathRound(snapshot[k].y * 1920, 100), 10, 1920 - 100)
         /\ BuiltFilter[k].w = Clamp(MathRound(40 * snapshot[k].scale, 10), 20, 80)
         /\ BuiltFilter[k].h = BuiltFilter[k].w
         /\ BuiltFilter[k].color = colors[((k - 1) % 6) + 1]

\* C28 witness: the colored-box strategy was called with a list longer than
\* the palette, so the seventh box starts the palette again, and the list
\* has annotations of the smallest and the greatest scale.
C28_Witness ==
  /\ built.strategy = "boxes"
  /\ Len(snapshot) = MaxListLen
  /\ BuiltFilter[1].color = "red" /\ BuiltFilter[6].color = "orange"
  /\ BuiltFilter[7].color = "red"
  /\ BuiltFilter[1].w = 20 /\ BuiltFilter[2].w = 80

\* C28 as first stated: one drawbox per annotation in the color
\* palette[i mod 6], all boxes of one size whatever the scale.
C28_BoxesOfOneSize ==
  built.strategy = "boxes" =>
    /\ Len(BuiltFilter) = Len(snapshot)
    /\ \A k \in 1..Len(snapshot) :
         /\ BuiltFilter[k].color = colors[((k - 1) % 6) + 1]
         /\ BuiltFilter[k].w = BuiltFilter[1].w
         /\ BuiltFilter[k].h = BuiltFilter[1].h

\* C31: the processed result exposed for preview and download was made
\* from the uploaded video, and once no job runs it is the result of the
\* last job started, not one an earlier job left behind.
C31_ResultOfCurrentVideo ==
  processedVideoUrl.set =>
    /\ processedVideoUrl.video = uploadedVideo
    /\ job.pc = "idle" => processedVideoUrl.job = jobs

\* The strategies a job has executed so far, the running one included.
StrategyExecutions == Len(job.log) + (IF job.pc = "strategy" THEN 1 ELSE 0)

\* C32: with every engine call settling, a job executes at most five
\* strategies (one exec each), and whenever isProcessing is set it is later
\* cleared with the progress value back at 0.
C32_JobsTerminate ==
  /\ [](StrategyExecutions <= 5)
  /\ isProcessing ~> (~isProcessing /\ processingProgress = 0 /\ job.pc = "idle")

\* C32 witness: the last job reached its fifth strategy, whose command
\* reported progress, and has ended in failure with isProcessing cleared and
\* the progress value back at 0.
C32_Witness ==
  /\ jobs >= 1 /\ lastEvent.job = jobs /\ lastEvent.stage = "final"
  /\ ~isProcessing /\ processingProgress = 0 /\ job.pc = "idle"
  /\ error

\* The gesture ends in the step, and its annotation is in the collection
\* after it.
GestureEnds == gesture.events # <<>> /\ gesture'.events = <<>>
GestureKeepsAnnotation ==
  \E k \in 1..Len(characters') : characters'[k].id = gesture.id

\* C33: on the preview a drag ends with its annotation still in the
\* collection, and a double click ends with its annotation still in the
\* collection and open for editing; only a single click removes it.
C33_OnlySingleClickRemoves ==
  [][/\ (GestureEnds /\ gesture.kind = "drag") => GestureKeepsAnnotation
     /\ (GestureEnds /\ gesture.kind = "dblclick") =>
          (GestureKeepsAnnotation /\ editingCharacter' = gesture.id)
     /\ (GestureEnds /\ gesture.kind = "click") => ~GestureKeepsAnnotation]_vars

====
